---- MODULE Spec2Model ----
(***************************************************************************)
(* Attendance / salary-deduction bot (src/4.py).                           *)
(*                                                                         *)
(* The state is the two module-level ledgers attendance_data and           *)
(* salary_data, the wall clock that the handler reads, and the message     *)
(* being handled with its reply, kept from the handler's mutations until   *)
(* the handler returns.  One action per branch of handle_message, and one  *)
(* for the return.  Updates are dispatched one at a time: a handler starts *)
(* only when the one before it has returned.                               *)
(*                                                                         *)
(* Python dicts keep insertion order and the code iterates over them       *)
(* (salary records in a sweep and in a retraction), so a group's salary    *)
(* ledger is a sequence of records, one per key, in insertion order.       *)
(*                                                                         *)
(* The handler reads the clock several times (today_str() at line 125,     *)
(* datetime.now() at 126, current_session() at 128, today_str() again at   *)
(* 253, 272 and 277).  Each read is an input of its own: the reads of one  *)
(* handler are numbered in program order and the clock may move forward    *)
(* once between two of them.                                               *)
(*                                                                         *)
(* disk holds the two stored files and their backups, proc the statement   *)
(* the process is at outside the handlers (the two loads of the start, the *)
(* statements of save_all) with the Python types of the two loaded         *)
(* objects, and tasks the handlers suspended at an await.  Spec runs the   *)
(* handlers one at a time with save_all in one piece; SpecStartup runs the *)
(* two loads, SpecSave runs save_all statement by statement with a crash,  *)
(* and SpecChats runs the handlers of two chats interleaved at their       *)
(* awaits.                                                                 *)
(***************************************************************************)
EXTENDS Integers, Sequences, FiniteSets, TLC

VARIABLES attendance, salary, clock, last, nEvents, probe, disk, proc, tasks

vars == <<attendance, salary, clock, last, nEvents, probe, disk, proc, tasks>>

(***************************************************************************)
(* Bounds of the model.                                                    *)
(***************************************************************************)
\* number of calendar days the clock can show
MaxDay == 2
\* number of messages handled in one run
MaxEvents == 2
\* clock resolution: ticks per second (datetime carries microseconds, the
\* recorded time string only whole seconds)
TicksPerSec == 2

(***************************************************************************)
(* Configuration (lines 14-22).                                            *)
(***************************************************************************)
\* user ids seen by the bot; 1 is an administrator, 2 and 3 are not
Users == {1, 2, 3}
ADMIN_IDS == {1}
Groups == {"g1"}
LATE_PENALTY == 50

\* dtime(h, m, s) with a sub-second part f, in ticks since midnight
Tick(h, m, s, f) == ((h * 60 + m) * 60 + s) * TicksPerSec + f
TicksPerDay == Tick(24, 0, 0, 0)

MORNING_START == Tick(10, 0, 0, 0)
MORNING_END == Tick(10, 30, 0, 0)
EVENING_START == Tick(16, 30, 0, 0)
EVENING_END == Tick(17, 0, 0, 0)
SESSION_CUT == Tick(13, 0, 0, 0)

(***************************************************************************)
(* Clock.  A clock value is a day and a time of day in ticks.              *)
(***************************************************************************)
\* the times of day at which the model lets the clock be read: 10:30:00
\* sharp (morning, the last on-time instant), the instant after it within
\* the same second (morning, outside the window) and 17:00:01 (evening,
\* outside the window)
TimePoints == { Tick(10, 30, 0, 0), Tick(10, 30, 0, 1), Tick(17, 0, 1, 0) }
Days == 1..MaxDay
ClockValues == [day : Days, tod : TimePoints]

Before(a, b) == a.day < b.day \/ (a.day = b.day /\ a.tod < b.tod)
NotAfter(a, b) == a = b \/ Before(a, b)

\* today_str(): the date part of a clock read
today_str(c) == c.day

\* strftime("%H:%M:%S"): whole seconds, the sub-second part is dropped
strftime(t) ==
    LET secs == t \div TicksPerSec
    IN  <<secs \div 3600, (secs \div 60) % 60, secs % 60>>

\* the time of day, in ticks, of the first instant a time string stands for
TimeOfStr(hms) == Tick(hms[1], hms[2], hms[3], 0)

\* current_session(): midday cut
current_session(t) == IF t < SESSION_CUT THEN "morning" ELSE "evening"

\* a variant with half-open windows (the end instants count as late)
is_within_window_EndsLate(t) ==
    \/ (MORNING_START <= t /\ t < MORNING_END)
    \/ (EVENING_START <= t /\ t < EVENING_END)

\* is_within_window(dt)
is_within_window(t) ==
    \/ (MORNING_START <= t /\ t <= MORNING_END)
    \/ (EVENING_START <= t /\ t <= EVENING_END)

Sessions == {"morning", "evening"}

(***************************************************************************)
(* Dict helpers.                                                           *)
(***************************************************************************)
EmptyMap == << >>
Put(m, k, v) == [x \in (DOMAIN m) \cup {k} |-> IF x = k THEN v ELSE m[x]]
\* dict.setdefault(k, v) as the resulting dict
setdefault(m, k, v) == IF k \in DOMAIN m THEN m ELSE Put(m, k, v)

\* str(uid) as a dict key, int(key) back
str(uid) == ToString(uid)
int(key) == CHOOSE n \in Users : ToString(n) = key

\* user.username or user.first_name
NameOf(uid) == "user" \o ToString(uid)

RECURSIVE SumAmounts(_)
SumAmounts(hist) ==
    IF hist = << >> THEN 0 ELSE hist[1].amount + SumAmounts(Tail(hist))

(***************************************************************************)
(* The two stored files (lines 11-12, 27-47).  A file is the sequence of   *)
(* chunks written to it: json.dump writes the opening brace, the body and  *)
(* the closing brace of an object, and json.load accepts a text only when  *)
(* all of it is there.  disk maps every path to its file.                  *)
(***************************************************************************)
DATA_FILE == "attendance_records.json"
SALARY_FILE == "salary_records.json"
Bak(path) == path \o ".bak"
Stores == {DATA_FILE, SALARY_FILE}
Paths == Stores \cup { Bak(p) : p \in Stores }

NoFile == [exists |-> FALSE, text |-> << >>]
File(text) == [exists |-> TRUE, text |-> text]
NoFiles == [p \in Paths |-> NoFile]

\* json.dump of a dict, as the chunks it writes
Dump(doc) == <<"{", doc, "}">>

\* json.load: the parsed value and its Python type, or a failure (the
\* JSONDecodeError of an empty, cut or garbled text)
json_load(text) ==
    IF Len(text) = 3 /\ text[1] = "{" /\ text[3] = "}"
    THEN [ok |-> TRUE, type |-> "dict", value |-> text[2]]
    ELSE IF Len(text) = 3 /\ text[1] = "[" /\ text[3] = "]"
    THEN [ok |-> TRUE, type |-> "list", value |-> text[2]]
    ELSE IF Len(text) = 1 /\ text[1] = "null"
    THEN [ok |-> TRUE, type |-> "NoneType", value |-> << >>]
    ELSE [ok |-> FALSE, type |-> "none", value |-> << >>]

\* os.rename(src, dst): dst is replaced, src is gone
rename(d, src, dst) == [d EXCEPT ![dst] = d[src], ![src] = NoFile]

\* load_json(path) on the disk d: the object returned, its type, and the
\* disk afterwards; renamed tells whether os.rename succeeded if it is
\* called (its failure is swallowed at lines 36-37)
load_json(d, path, renamed) ==
    IF ~d[path].exists
    THEN [value |-> EmptyMap, type |-> "dict", disk |-> d]
    ELSE LET r == json_load(d[path].text)
         IN  IF r.ok
             THEN IF r.value = << >>
                  THEN [value |-> EmptyMap, type |-> "dict", disk |-> d]
                  ELSE [value |-> r.value, type |-> r.type, disk |-> d]
             ELSE [value |-> EmptyMap, type |-> "dict",
                   disk |-> IF renamed THEN rename(d, path, Bak(path)) ELSE d]

\* open(path, "w"): the file exists and is empty
OpenForWrite(d, path) == [d EXCEPT ![path] = File(<< >>)]

\* one more chunk of json.dump(doc) reaches the file
WriteChunk(d, path, doc) ==
    [d EXCEPT ![path] = File(Append(@.text, Dump(doc)[Len(@.text) + 1]))]

\* the file holds all of json.dump(doc)
Complete(d, path, doc) == d[path] = File(Dump(doc))

\* save_all() run to its end on the disk d (lines 43-47)
WriteAll(d, att, sal) ==
    [d EXCEPT ![DATA_FILE] = File(Dump(att)), ![SALARY_FILE] = File(Dump(sal))]

\* the call of save_all() in a handler, after the handler's mutations
save_all == disk' = WriteAll(disk, attendance', salary')

\* a branch that returns without calling save_all()
NoSave == UNCHANGED disk

\* the process after startup: both files loaded, both objects dicts
Running == [pc |-> "running", data_type |-> "dict", salary_type |-> "dict"]

(***************************************************************************)
(* ensure_user_salary / ensure_day_structure (lines 69-85).                *)
(***************************************************************************)
HasRec(gs, uid) == \E i \in 1..Len(gs) : gs[i].key = str(uid)
RecIdx(gs, uid) == CHOOSE i \in 1..Len(gs) : gs[i].key = str(uid)

ensure_user_salary(gs, uid, username) ==
    IF ~HasRec(gs, uid)
    THEN Append(gs, [key |-> str(uid),
                     username |-> IF username = "" THEN "unknown" ELSE username,
                     deductions |-> 0, history |-> << >>])
    ELSE IF username # "" /\ gs[RecIdx(gs, uid)].username = ""
         THEN [gs EXCEPT ![RecIdx(gs, uid)].username = username]
         ELSE gs

EmptyDay == [morning |-> << >>, evening |-> << >>]

\* every stored day is a dict holding two lists, so only the first branch
\* of ensure_day_structure can change anything
ensure_day_structure(ga, date) ==
    IF date \notin DOMAIN ga THEN Put(ga, date, EmptyDay) ELSE ga

(***************************************************************************)
(* The prologue of handle_message (lines 131-138): the ledgers after the   *)
(* group, the day and the caller's salary record have been ensured.        *)
(***************************************************************************)
AttAfterEnsure(g, date) ==
    LET a0 == setdefault(attendance, g, EmptyMap)
    IN  Put(a0, g, ensure_day_structure(a0[g], date))

SalAfterEnsure(g, u) ==
    LET s0 == setdefault(salary, g, << >>)
    IN  Put(s0, g, ensure_user_salary(s0[g], u, NameOf(u)))

\* the i-th clock read of a handler that starts at c0 and sees the clock
\* move to c1 just before its read number sw
Read(c0, c1, sw, i) == IF i < sw THEN c0 ELSE c1

\* the next modelled instant after c (c itself at the end of the last day)
Succ(c) ==
    IF \E t \in TimePoints : t > c.tod
    THEN [c EXCEPT !.tod = CHOOSE t \in TimePoints :
                               t > c.tod /\ \A x \in TimePoints : x > c.tod => t <= x]
    ELSE IF c.day < MaxDay
    THEN [day |-> c.day + 1,
          tod |-> CHOOSE t \in TimePoints : \A x \in TimePoints : t <= x]
    ELSE c

\* the clock inputs of one handled message: it arrives at c0, not before
\* the last read; the clock shows c1 from read number sw on (nothing bounds
\* the time between two statements, so c1 may be any later instant; the
\* model takes the next one); a handler of nReads reads that sees no change
\* has sw = nReads + 1 and c1 = c0
Arrivals(c0, c1, sw, nReads) ==
    /\ c0 \in ClockValues /\ NotAfter(clock, c0)
    /\ c1 \in {c0, Succ(c0)}
    /\ sw \in 2..(nReads + 1)
    /\ (c1 = c0) <=> (sw = nReads + 1)

Reply(status, late, list, total) ==
    [status |-> status, late |-> late, list |-> list, total |-> total]

Event(g, u, text, date, now, session, reply) ==
    [group |-> g, user |-> u, text |-> text, date |-> date,
     now |-> now, session |-> session, reply |-> reply]

(***************************************************************************)
(* The state after construction (lines 40-41): the ledgers as the stored   *)
(* files hold them.  Either nothing is stored (load_json returns {}), or   *)
(* an earlier run left the group with its three users known, nothing       *)
(* deducted and attendance cleared: the state after each user has sent a   *)
(* message and an administrator has sent "0".                              *)
(***************************************************************************)
NoEvent ==
    [group |-> "none", user |-> 0, text |-> "none", date |-> 0,
     now |-> [day |-> 0, tod |-> 0], session |-> "none",
     reply |-> Reply("none", FALSE, << >>, 0)]
NoProbe == [t |-> 0, within |-> FALSE, done |-> TRUE]
FirstClock == [day |-> 1, tod |-> Tick(10, 30, 0, 0)]

ZeroRecord(uid) ==
    [key |-> str(uid), username |-> NameOf(uid), deductions |-> 0, history |-> << >>]

TheGroup == CHOOSE g \in Groups : TRUE

StaffedSalary == Put(EmptyMap, TheGroup, <<ZeroRecord(1), ZeroRecord(2), ZeroRecord(3)>>)
ClearedAttendance == Put(EmptyMap, TheGroup, EmptyMap)

Init ==
    /\ \/ /\ attendance = EmptyMap /\ salary = EmptyMap
          /\ disk = NoFiles
       \/ /\ attendance = ClearedAttendance /\ salary = StaffedSalary
          /\ disk = WriteAll(NoFiles, ClearedAttendance, StaffedSalary)
    /\ clock = FirstClock
    /\ last = NoEvent
    /\ nEvents = 0
    /\ probe = NoProbe
    /\ proc = Running
    /\ tasks = {}

\* what every handled message does besides its own branch
Handled(c1) ==
    /\ clock' = c1
    /\ nEvents' = nEvents + 1
    /\ UNCHANGED <<probe, proc>>

(***************************************************************************)
(* "1": mark attendance (lines 141-170).                                   *)
(***************************************************************************)
\* the late flag of a new entry (lines 151-165)
LateFlag(u, now) == u \notin ADMIN_IDS /\ ~is_within_window(now.tod)

\* a variant that adds to the total and forgets the history
applyDeduction_TotalOnly(gs, uid, date, amount, reason) ==
    [gs EXCEPT ![RecIdx(gs, uid)].deductions = @ + amount]

\* lines 161-162 and 252-253: add to the total and append the event
applyDeduction(gs, uid, date, amount, reason) ==
    LET i == RecIdx(gs, uid)
    IN  [gs EXCEPT ![i].deductions = @ + amount,
                   ![i].history = Append(@, [date |-> date, amount |-> amount,
                                             reason |-> reason])]

\* a variant whose scan of the list starts one entry too far
AlreadyIn_SkipsFirst(list, u) == \E i \in 2..Len(list) : list[i].user_id = u

AlreadyIn(list, u) == \E i \in 1..Len(list) : list[i].user_id = u

Mark(g, u, c0, c1, sw) ==
    LET date == today_str(Read(c0, c1, sw, 1))
        now == Read(c0, c1, sw, 2)
        session == current_session(Read(c0, c1, sw, 3).tod)
        att1 == AttAfterEnsure(g, date)
        sal1 == SalAfterEnsure(g, u)
        day_rec == att1[g][date]
        late == LateFlag(u, now)
        entry == [user_id |-> u, username |-> NameOf(u), date |-> date,
                  time |-> strftime(now.tod), late |-> late, session |-> session]
    IN  /\ Arrivals(c0, c1, sw, 3)
        /\ IF AlreadyIn(day_rec[session], u)
           THEN /\ attendance' = att1
                /\ salary' = sal1
                /\ NoSave
                /\ last' = Event(g, u, "1", date, now, session,
                                 Reply("already_marked", FALSE, << >>, 0))
           ELSE /\ attendance' = Put(att1, g, Put(att1[g], date,
                                   [day_rec EXCEPT ![session] = Append(@, entry)]))
                /\ salary' = IF late
                             THEN Put(sal1, g, applyDeduction(sal1[g], u, date,
                                                              LATE_PENALTY, "late"))
                             ELSE sal1
                /\ save_all
                /\ last' = Event(g, u, "1", date, now, session,
                                 Reply("created", late, << >>, 0))
        /\ Handled(c1)

(***************************************************************************)
(* "2", "3", "4" and any other text (lines 172-205): queries.  They change *)
(* nothing but what the prologue ensures.  Only the date read is used.     *)
(***************************************************************************)
\* today's record and the group's salary records as a query sees them
DayRecFor(g, c0) == AttAfterEnsure(g, today_str(c0))[g][today_str(c0)]
SalFor(g, u) == SalAfterEnsure(g, u)[g]

Query(g, u, c0, text, reply) ==
    /\ Arrivals(c0, c0, 2, 1)
    /\ attendance' = AttAfterEnsure(g, today_str(c0))
    /\ salary' = SalAfterEnsure(g, u)
    /\ NoSave
    /\ last' = Event(g, u, text, today_str(c0), c0, current_session(c0.tod), reply)
    /\ Handled(c0)

CountReply(day_rec) ==
    Reply("count", FALSE, << >>, Len(day_rec.morning) + Len(day_rec.evening))

Count(g, u, c0) == Query(g, u, c0, "2", CountReply(DayRecFor(g, c0)))

ListReply(day_rec) ==
    Reply("list", FALSE, day_rec.morning \o day_rec.evening, 0)

List(g, u, c0) == Query(g, u, c0, "3", ListReply(DayRecFor(g, c0)))

ShowList(gs) == [i \in 1..Len(gs) |-> <<gs[i].username, gs[i].deductions>>]

RECURSIVE SumDeductions(_)
SumDeductions(gs) ==
    IF gs = << >> THEN 0 ELSE gs[1].deductions + SumDeductions(Tail(gs))

Denied == Reply("denied", FALSE, << >>, 0)

ShowReply(u, gs) ==
    IF u \notin ADMIN_IDS THEN Denied
    ELSE IF gs = << >> THEN Reply("no_deductions", FALSE, << >>, 0)
    ELSE Reply("deductions", FALSE, ShowList(gs), SumDeductions(gs))

Show(g, u, c0) == Query(g, u, c0, "4", ShowReply(u, SalFor(g, u)))

NoReply == Reply("none", FALSE, << >>, 0)

OtherText(g, u, c0) == Query(g, u, c0, "other", NoReply)

(***************************************************************************)
(* "5": clear all deductions of the group (lines 208-217).                 *)
(***************************************************************************)
\* a variant that deletes the records
clearAll_DropsRecords(gs) == << >>

\* a variant that zeroes the totals and keeps the histories
clearAll_TotalsOnly(gs) ==
    [i \in 1..Len(gs) |-> [gs[i] EXCEPT !.deductions = 0]]

clearAll(gs) ==
    [i \in 1..Len(gs) |-> [gs[i] EXCEPT !.deductions = 0, !.history = << >>]]

\* a variant that lets anybody clear the deductions
ClearDeductions_NoGuard(g, u, c0) ==
    LET date == today_str(c0)
        att1 == AttAfterEnsure(g, date)
        sal1 == SalAfterEnsure(g, u)
    IN  /\ Arrivals(c0, c0, 2, 1)
        /\ attendance' = att1
        /\ salary' = Put(sal1, g, clearAll(sal1[g]))
        /\ save_all
        /\ last' = Event(g, u, "5", date, c0, current_session(c0.tod),
                         Reply("cleared_all", FALSE, << >>, 0))
        /\ Handled(c0)

ClearDeductions(g, u, c0) ==
    LET date == today_str(c0)
        att1 == AttAfterEnsure(g, date)
        sal1 == SalAfterEnsure(g, u)
    IN  /\ Arrivals(c0, c0, 2, 1)
        /\ attendance' = att1
        /\ IF u \notin ADMIN_IDS
           THEN /\ salary' = sal1
                /\ NoSave
                /\ last' = Event(g, u, "5", date, c0, current_session(c0.tod), Denied)
           ELSE /\ salary' = Put(sal1, g, clearAll(sal1[g]))
                /\ save_all
                /\ last' = Event(g, u, "5", date, c0, current_session(c0.tod),
                                 Reply("cleared_all", FALSE, << >>, 0))
        /\ Handled(c0)

(***************************************************************************)
(* "6": find missing attendance and deduct (lines 220-261).                *)
(***************************************************************************)
\* every entry of every session of every date of the group (lines 231-235)
EntriesOf(ga) ==
    UNION { { ga[d][s][i] : i \in 1..Len(ga[d][s]) } : d \in DOMAIN ga, s \in Sessions }

\* all the orders in which a set can be listed
Orderings(S) ==
    { f \in [1..Cardinality(S) -> S] : \A i, j \in 1..Cardinality(S) : i # j => f[i] # f[j] }

\* lines 226-236: the salary keys in dict order when there are any, else the
\* (user_id, username) pairs of the attendance ledger as a set, listed in
\* whatever order the set iterates
MemberLists(gs, ga) ==
    IF gs # << >>
    THEN { [i \in 1..Len(gs) |-> <<int(gs[i].key), gs[i].username>>] }
    ELSE Orderings({ <<e.user_id, e.username>> : e \in EntriesOf(ga) })

\* line 242
MarkedIds(list) == { list[i].user_id : i \in 1..Len(list) }

\* a variant that forgets to leave the administrators out
IsMissing_AdminsToo(m, marked_ids) == m[1] \notin marked_ids

\* line 243
IsMissing(m, marked_ids) == m[1] \notin marked_ids /\ m[1] \notin ADMIN_IDS

MissingOf(members, marked_ids) ==
    LET keep(m) == IsMissing(m, marked_ids)
    IN  SelectSeq(members, keep)

\* a variant that penalises a user at most once per date
RECURSIVE DeductMissing_OncePerDay(_, _, _, _, _, _)
DeductMissing_OncePerDay(gs, missing, i, c0, c1, sw) ==
    IF i > Len(missing) THEN gs
    ELSE LET uid == missing[i][1]
             rec == ensure_user_salary(gs, uid, missing[i][2])
             today == today_str(Read(c0, c1, sw, 3 + i))
             hist == rec[RecIdx(rec, uid)].history
             seen == \E k \in 1..Len(hist) :
                         hist[k].date = today /\ hist[k].reason = "missing"
         IN  DeductMissing_OncePerDay(
                 IF seen THEN rec
                 ELSE applyDeduction(rec, uid, today, LATE_PENALTY, "missing"),
                 missing, i + 1, c0, c1, sw)

\* lines 250-253 from the i-th missing user on; the date of each event is a
\* clock read of its own (read number 3 + i)
RECURSIVE DeductMissing(_, _, _, _, _, _)
DeductMissing(gs, missing, i, c0, c1, sw) ==
    IF i > Len(missing) THEN gs
    ELSE LET uid == missing[i][1]
             rec == ensure_user_salary(gs, uid, missing[i][2])
         IN  DeductMissing(applyDeduction(rec, uid, today_str(Read(c0, c1, sw, 3 + i)),
                                          LATE_PENALTY, "missing"),
                           missing, i + 1, c0, c1, sw)

FindMissing(g, u, c0, c1, sw, members) ==
    LET date == today_str(Read(c0, c1, sw, 1))
        now == Read(c0, c1, sw, 2)
        session == current_session(Read(c0, c1, sw, 3).tod)
        att1 == AttAfterEnsure(g, date)
        sal1 == SalAfterEnsure(g, u)
        day_rec == att1[g][date]
        missing == MissingOf(members, MarkedIds(day_rec[session]))
        nReads == IF u \in ADMIN_IDS THEN 3 + Len(missing) ELSE 3
    IN  /\ Arrivals(c0, c1, sw, nReads)
        /\ members \in MemberLists(sal1[g], att1[g])
        /\ attendance' = att1
        /\ IF u \notin ADMIN_IDS
           THEN /\ salary' = sal1
                /\ NoSave
                /\ last' = Event(g, u, "6", date, now, session, Denied)
           ELSE IF members = << >>
           THEN /\ salary' = sal1
                /\ NoSave
                /\ last' = Event(g, u, "6", date, now, session,
                                 Reply("no_members", FALSE, << >>, 0))
           ELSE IF missing = << >>
           THEN /\ salary' = sal1
                /\ NoSave
                /\ last' = Event(g, u, "6", date, now, session,
                                 Reply("everyone_marked", FALSE, << >>, 0))
           ELSE /\ salary' = Put(sal1, g, DeductMissing(sal1[g], missing, 1, c0, c1, sw))
                /\ save_all
                /\ last' = Event(g, u, "6", date, now, session,
                                 Reply("swept", FALSE, missing,
                                       LATE_PENALTY * Len(missing)))
        /\ Handled(c1)

(***************************************************************************)
(* "7": clear today's 'missing' deductions (lines 264-292).                *)
(***************************************************************************)
\* the elements of seq at the indices in idxs, in order
RECURSIVE SubSeqAt(_, _, _)
SubSeqAt(seq, idxs, k) ==
    IF k > Len(seq) THEN << >>
    ELSE (IF k \in idxs THEN <<seq[k]>> ELSE << >>) \o SubSeqAt(seq, idxs, k + 1)

Max(a, b) == IF a >= b THEN a ELSE b

\* lines 272 and 277: the test of one history element against one clock read
IsTodaysMissing(h, c) == h.date = today_str(c) /\ h.reason = "missing"

\* lines 270-278 from record i on.  Reads base + 1 .. base + n select
\* to_remove (line 272, one today_str() per element); when something was
\* selected, reads base + n + 1 .. base + 2n filter the history (line 277).
RECURSIVE RetractRecs(_, _, _, _, _, _)
RetractRecs(gs, i, base, c0, c1, sw) ==
    IF i > Len(gs) THEN [gs |-> gs, cleared |-> << >>, reads |-> base]
    ELSE LET rec == gs[i]
             hist == rec.history
             n == Len(hist)
             sel == { k \in 1..n : IsTodaysMissing(hist[k], Read(c0, c1, sw, base + k)) }
             to_remove == SubSeqAt(hist, sel, 1)
             amount == SumAmounts(to_remove)
             kept == { k \in 1..n :
                         ~IsTodaysMissing(hist[k], Read(c0, c1, sw, base + n + k)) }
             newrec == [rec EXCEPT !.deductions = Max(0, @ - amount),
                                   !.history = SubSeqAt(hist, kept, 1)]
         IN  IF to_remove = << >>
             THEN RetractRecs(gs, i + 1, base + n, c0, c1, sw)
             ELSE LET rest == RetractRecs([gs EXCEPT ![i] = newrec], i + 1,
                                          base + 2 * n, c0, c1, sw)
                  IN  [rest EXCEPT !.cleared = <<<<rec.username, amount>>>> \o @]

RECURSIVE SumCleared(_)
SumCleared(cleared) ==
    IF cleared = << >> THEN 0 ELSE cleared[1][2] + SumCleared(Tail(cleared))

ClearMissingToday(g, u, c0, c1, sw) ==
    LET date == today_str(Read(c0, c1, sw, 1))
        now == Read(c0, c1, sw, 2)
        session == current_session(Read(c0, c1, sw, 3).tod)
        att1 == AttAfterEnsure(g, date)
        sal1 == SalAfterEnsure(g, u)
        res == RetractRecs(sal1[g], 1, 3, c0, c1, sw)
        nReads == IF u \in ADMIN_IDS THEN res.reads ELSE 3
    IN  /\ Arrivals(c0, c1, sw, nReads)
        /\ attendance' = att1
        /\ IF u \notin ADMIN_IDS
           THEN /\ salary' = sal1
                /\ NoSave
                /\ last' = Event(g, u, "7", date, now, session, Denied)
           ELSE /\ salary' = Put(sal1, g, res.gs)
                /\ IF res.cleared = << >> THEN NoSave ELSE save_all
                /\ last' = Event(g, u, "7", date, now, session,
                                 IF res.cleared = << >>
                                 THEN Reply("nothing_to_clear", FALSE, << >>, 0)
                                 ELSE Reply("cleared", FALSE, res.cleared,
                                            SumCleared(res.cleared)))
        /\ Handled(c1)

(***************************************************************************)
(* "0": clear attendance of the group (lines 295-304).                     *)
(***************************************************************************)
\* a variant that empties the ledger of every group
ClearAttendance_AllGroups(g, u, c0) ==
    LET date == today_str(c0)
        att1 == AttAfterEnsure(g, date)
        sal1 == SalAfterEnsure(g, u)
    IN  /\ Arrivals(c0, c0, 2, 1)
        /\ salary' = sal1
        /\ IF u \notin ADMIN_IDS
           THEN /\ attendance' = att1
                /\ NoSave
                /\ last' = Event(g, u, "0", date, c0, current_session(c0.tod), Denied)
           ELSE /\ attendance' = [h \in DOMAIN att1 |-> EmptyMap]
                /\ save_all
                /\ last' = Event(g, u, "0", date, c0, current_session(c0.tod),
                                 Reply("attendance_cleared", FALSE, << >>, 0))
        /\ Handled(c0)

ClearAttendance(g, u, c0) ==
    LET date == today_str(c0)
        att1 == AttAfterEnsure(g, date)
        sal1 == SalAfterEnsure(g, u)
    IN  /\ Arrivals(c0, c0, 2, 1)
        /\ salary' = sal1
        /\ IF u \notin ADMIN_IDS
           THEN /\ attendance' = att1
                /\ NoSave
                /\ last' = Event(g, u, "0", date, c0, current_session(c0.tod), Denied)
           ELSE /\ attendance' = Put(att1, g, EmptyMap)
                /\ save_all
                /\ last' = Event(g, u, "0", date, c0, current_session(c0.tod),
                                 Reply("attendance_cleared", FALSE, << >>, 0))
        /\ Handled(c0)

\* the clock values a message can arrive at, and what the clock can show
\* later in its handler
ArrivalTimes == { c \in ClockValues : NotAfter(clock, c) }
Later(c0) == {c0, Succ(c0)}

\* the number of history events of a group's salary ledger
RECURSIVE HistoryCount(_)
HistoryCount(gs) ==
    IF gs = << >> THEN 0 ELSE Len(gs[1].history) + HistoryCount(Tail(gs))

\* the read numbers at which the handler of "7" can see the clock change
RetractSwitches(g) ==
    2..(4 + 2 * (IF g \in DOMAIN salary THEN HistoryCount(salary[g]) ELSE 0))

\* the read numbers at which the handler of "6" can see the clock change
SweepSwitches == 2..(4 + Cardinality(Users))

\* the dispatcher hands over the next message when no handler is running,
\* while the run's budget of messages lasts
CanHandle == last = NoEvent /\ nEvents < MaxEvents

\* the reply has been sent and the handler returns
Return ==
    /\ last # NoEvent
    /\ last' = NoEvent
    /\ UNCHANGED <<attendance, salary, clock, nEvents, probe, disk, proc, tasks>>

MarkStep ==
    /\ CanHandle
    /\ UNCHANGED tasks
    /\ \E g \in Groups, u \in Users, c0 \in ArrivalTimes :
           \E c1 \in Later(c0), sw \in 2..4 : Mark(g, u, c0, c1, sw)

CountStep ==
    /\ CanHandle
    /\ UNCHANGED tasks
    /\ \E g \in Groups, u \in Users, c0 \in ArrivalTimes : Count(g, u, c0)

ListStep ==
    /\ CanHandle
    /\ UNCHANGED tasks
    /\ \E g \in Groups, u \in Users, c0 \in ArrivalTimes : List(g, u, c0)

ShowStep ==
    /\ CanHandle
    /\ UNCHANGED tasks
    /\ \E g \in Groups, u \in Users, c0 \in ArrivalTimes : Show(g, u, c0)

OtherTextStep ==
    /\ CanHandle
    /\ UNCHANGED tasks
    /\ \E g \in Groups, u \in Users, c0 \in ArrivalTimes : OtherText(g, u, c0)

ClearDeductionsStep ==
    /\ CanHandle
    /\ UNCHANGED tasks
    /\ \E g \in Groups, u \in Users, c0 \in ArrivalTimes : ClearDeductions(g, u, c0)

FindMissingStep ==
    /\ CanHandle
    /\ UNCHANGED tasks
    /\ \E g \in Groups, u \in Users, c0 \in ArrivalTimes :
           \E c1 \in Later(c0), sw \in SweepSwitches :
               \E members \in MemberLists(SalAfterEnsure(g, u)[g],
                                          AttAfterEnsure(g, today_str(c0))[g]) :
                   FindMissing(g, u, c0, c1, sw, members)

ClearMissingTodayStep ==
    /\ CanHandle
    /\ UNCHANGED tasks
    /\ \E g \in Groups, u \in Users, c0 \in ArrivalTimes :
           \E c1 \in Later(c0), sw \in RetractSwitches(g) :
               ClearMissingToday(g, u, c0, c1, sw)

ClearAttendanceStep ==
    /\ CanHandle
    /\ UNCHANGED tasks
    /\ \E g \in Groups, u \in Users, c0 \in ArrivalTimes : ClearAttendance(g, u, c0)

Next ==
    \/ MarkStep
    \/ CountStep
    \/ ListStep
    \/ ShowStep
    \/ OtherTextStep
    \/ ClearDeductionsStep
    \/ FindMissingStep
    \/ ClearMissingTodayStep
    \/ ClearAttendanceStep
    \/ Return

Spec == Init /\ [][Next]_vars

(***************************************************************************)
(* is_within_window on its own: every instant of the day is classified.    *)
(***************************************************************************)
InitWindow ==
    /\ attendance = EmptyMap
    /\ salary = EmptyMap
    /\ clock = FirstClock
    /\ last = NoEvent
    /\ nEvents = 0
    /\ probe \in [t : 0..(TicksPerDay - 1), within : {FALSE}, done : {FALSE}]
    /\ disk = NoFiles
    /\ proc = Running
    /\ tasks = {}

Classify ==
    /\ ~probe.done
    /\ probe' = [probe EXCEPT !.within = is_within_window(probe.t), !.done = TRUE]
    /\ UNCHANGED <<attendance, salary, clock, last, nEvents, disk, proc, tasks>>

NextWindow == Classify

SpecWindow == InitWindow /\ [][NextWindow]_vars

(***************************************************************************)
(* A start from stored files of which the salary file is gone: load_json   *)
(* returns {} for a missing or unreadable file (lines 28-38), while the    *)
(* attendance file still holds the entries of an earlier run.              *)
(***************************************************************************)
StoredEntry(u, c) ==
    [user_id |-> u, username |-> NameOf(u), date |-> today_str(c),
     time |-> strftime(c.tod), late |-> LateFlag(u, c),
     session |-> current_session(c.tod)]

StoredAttendance ==
    Put(EmptyMap, TheGroup,
        Put(EmptyMap, 1,
            [morning |-> <<StoredEntry(2, FirstClock)>>,
             evening |-> <<StoredEntry(3, [day |-> 1, tod |-> Tick(17, 0, 1, 0)])>>]))

InitLoaded ==
    /\ attendance = StoredAttendance
    /\ salary = EmptyMap
    /\ clock \in { c \in ClockValues : c.tod = Tick(17, 0, 1, 0) }
    /\ last = NoEvent
    /\ nEvents = 0
    /\ probe = NoProbe
    /\ disk = [NoFiles EXCEPT ![DATA_FILE] = File(Dump(StoredAttendance))]
    /\ proc = Running
    /\ tasks = {}

SpecLoaded == InitLoaded /\ [][Next]_vars

(***************************************************************************)
(* Reading the ledgers.                                                    *)
(***************************************************************************)
GroupSal(sal, g) == IF g \in DOMAIN sal THEN sal[g] ELSE << >>

DedOf(sal, g, u) ==
    IF HasRec(GroupSal(sal, g), u) THEN sal[g][RecIdx(sal[g], u)].deductions ELSE 0

HistOf(sal, g, u) ==
    IF HasRec(GroupSal(sal, g), u) THEN sal[g][RecIdx(sal[g], u)].history ELSE << >>

EntriesAt(att, g, d, s) ==
    IF g \in DOMAIN att /\ d \in DOMAIN att[g] THEN att[g][d][s] ELSE << >>

AllEntries(att) == UNION { EntriesOf(att[g]) : g \in DOMAIN att }

\* this step handled a message with the given text
Handles(text) == nEvents' = nEvents + 1 /\ last'.text = text

(***************************************************************************)
(* C1: idempotent marking.                                                 *)
(***************************************************************************)
\* no user_id appears twice in one session list of one day
C1_UniqueEntries ==
    \A g \in DOMAIN attendance : \A d \in DOMAIN attendance[g] : \A s \in Sessions :
        LET list == attendance[g][d][s]
        IN  \A i, j \in 1..Len(list) : i # j => list[i].user_id # list[j].user_id

\* a mark by a user who already has an entry for the day and session the
\* handler works on answers already_marked and changes neither ledger
C1_SecondMark ==
    ( /\ Handles("1")
      /\ AlreadyIn(EntriesAt(attendance, last'.group, last'.date, last'.session),
                   last'.user) )
    => ( /\ last'.reply.status = "already_marked"
         /\ attendance' = attendance
         /\ salary' = salary )

\* C1: every session list of every day holds at most one entry per user, and
\* a second mark by the same user for the same day and session returns
\* already_marked and leaves the attendance and salary ledgers as they were,
\* whatever its timestamp.
C1_IdempotentMark == [][C1_UniqueEntries' /\ C1_SecondMark]_vars

\* C1 witness: a non-admin marked on time, marked again in the same session
\* at an instant outside the window, was told already_marked and owes nothing
C1_Witness ==
    /\ last.text = "1"
    /\ last.reply.status = "already_marked"
    /\ last.user \notin ADMIN_IDS
    /\ ~is_within_window(last.now.tod)
    /\ DedOf(salary, last.group, last.user) = 0
    /\ AlreadyIn(EntriesAt(attendance, last.group, last.date, last.session), last.user)

(***************************************************************************)
(* C2: deductions = sum of history.                                        *)
(***************************************************************************)
\* C2: for every salary record of every group, deductions equals the sum of
\* the amounts of its history.
C2_DeductionsEqualHistory ==
    \A g \in DOMAIN salary : \A i \in 1..Len(salary[g]) :
        salary[g][i].deductions = SumAmounts(salary[g][i].history)

(***************************************************************************)
(* C3: admin immunity.                                                     *)
(***************************************************************************)
\* C3: no administrator's salary record ever holds a deduction event or a
\* total above 0.
C3_AdminImmunity ==
    \A g \in DOMAIN salary : \A i \in 1..Len(salary[g]) :
        int(salary[g][i].key) \in ADMIN_IDS
            => salary[g][i].deductions = 0 /\ salary[g][i].history = << >>

\* C3 witness: an administrator has marked at an instant outside both
\* windows, and a sweep has just penalised the users missing from a session
\* the administrator has no entry in either
C3_Witness ==
    /\ last.text = "6"
    /\ last.reply.status = "swept"
    /\ \E a \in ADMIN_IDS :
          /\ HasRec(GroupSal(salary, last.group), a)
          /\ ~AlreadyIn(EntriesAt(attendance, last.group, last.date, last.session), a)
          /\ \E e \in AllEntries(attendance) :
                e.user_id = a /\ ~is_within_window(TimeOfStr(e.time))

(***************************************************************************)
(* C4: the on-time test.                                                   *)
(***************************************************************************)
\* membership of an instant, given as whole seconds and a sub-second part,
\* in one of the closed intervals [10:00:00, 10:30:00], [16:30:00, 17:00:00]
InClosedWindows(t) ==
    LET secs == t \div TicksPerSec
        frac == t % TicksPerSec
        inside(lo, hi) == secs >= lo /\ (secs < hi \/ (secs = hi /\ frac = 0))
    IN  inside(36000, 37800) \/ inside(59400, 61200)

OnTimeInstants == { Tick(10, 0, 0, 0), Tick(10, 30, 0, 0), Tick(16, 30, 0, 0), Tick(17, 0, 0, 0) }
LateInstants == { Tick(9, 59, 59, 0), Tick(10, 30, 1, 0), Tick(16, 29, 59, 0), Tick(17, 0, 1, 0) }

\* C4: is_within_window(t) is true exactly when t lies in one of the two
\* closed windows; the four window ends are on time, the seconds just
\* outside them are late.
C4_WindowMembership ==
    probe.done =>
        /\ probe.within = InClosedWindows(probe.t)
        /\ probe.t \in OnTimeInstants => probe.within
        /\ probe.t \in LateInstants => ~probe.within

\* C4 witness: 10:30:00 sharp has been classified as on time
C4_Witness == probe.done /\ probe.t = Tick(10, 30, 0, 0) /\ probe.within

(***************************************************************************)
(* C5: the late flag of an entry against its recorded time.                *)
(***************************************************************************)
\* C5: every entry whose recorded time of day is outside both windows has
\* late = true, and every entry whose recorded time is inside a window has
\* late = false, whoever the user and whichever the session.
C5_LateIffOutside ==
    \A e \in AllEntries(attendance) : e.late = ~is_within_window(TimeOfStr(e.time))

(***************************************************************************)
(* C6: what a created entry does to the salary ledger.                     *)
(***************************************************************************)
C6_MarkEffect ==
    ( Handles("1") /\ last'.user \notin ADMIN_IDS /\ last'.reply.status = "created" )
    => LET g == last'.group
           u == last'.user
           list == EntriesAt(attendance', g, last'.date, last'.session)
           entry == list[Len(list)]
       IN  /\ Len(list) = Len(EntriesAt(attendance, g, last'.date, last'.session)) + 1
           /\ entry.user_id = u
           /\ entry.late = last'.reply.late
           /\ IF entry.late
              THEN /\ HistOf(salary', g, u) =
                          Append(HistOf(salary, g, u),
                                 [date |-> entry.date, amount |-> 50, reason |-> "late"])
                   /\ DedOf(salary', g, u) = DedOf(salary, g, u) + 50
              ELSE /\ HistOf(salary', g, u) = HistOf(salary, g, u)
                   /\ DedOf(salary', g, u) = DedOf(salary, g, u)
           /\ \A v \in Users \ {u} :
                 /\ HasRec(GroupSal(salary', g), v) <=> HasRec(GroupSal(salary, g), v)
                 /\ HistOf(salary', g, v) = HistOf(salary, g, v)
                 /\ DedOf(salary', g, v) = DedOf(salary, g, v)

\* C6: a mark by a non-admin that creates an entry appends exactly one
\* event {the entry's date, 50, late} to that user's history and adds 50 to
\* the user's deductions when the entry is late, changes no total and no
\* history when it is on time, and never changes another user's record.
C6_MarkDeduction == [][C6_MarkEffect]_vars

\* C6 witness: a non-admin has just been marked late and owes 50 for it
C6_Witness ==
    /\ last.text = "1"
    /\ last.reply.status = "created"
    /\ last.reply.late
    /\ last.user \notin ADMIN_IDS
    /\ DedOf(salary, last.group, last.user) = 50

(***************************************************************************)
(* C7: retraction exactness.                                               *)
(***************************************************************************)
\* the events of a history that a retraction for the date today removes
MissingOn(hist, today) ==
    LET hit(h) == h.date = today /\ h.reason = "missing" IN SelectSeq(hist, hit)

NotMissingOn(hist, today) ==
    LET keep(h) == ~(h.date = today /\ h.reason = "missing") IN SelectSeq(hist, keep)

\* the retraction for the date today, as the claim states it: per record the
\* matching events go and nothing else, the total drops by their sum, and
\* the report lists the records that had a match with that sum
C7_ExactFor(today) ==
    LET g == last'.group
        gs == salary'[g]
        pairs == [i \in 1..Len(gs) |->
                    <<gs[i].username,
                      SumAmounts(MissingOn(HistOf(salary, g, int(gs[i].key)), today))>>]
        hits == { i \in 1..Len(gs) :
                    MissingOn(HistOf(salary, g, int(gs[i].key)), today) # << >> }
    IN  /\ \A v \in Users :
              /\ HistOf(salary', g, v) = NotMissingOn(HistOf(salary, g, v), today)
              /\ DedOf(salary', g, v) =
                     DedOf(salary, g, v) - SumAmounts(MissingOn(HistOf(salary, g, v), today))
        /\ last'.reply.list = SubSeqAt(pairs, hits, 1)

\* C7: clear_missing_today removes from every record exactly the events of
\* today with reason missing, keeps every other event in place and in order,
\* lowers each total by exactly the removed sum and reports exactly the
\* records that had a match, each with its removed sum (today being the date
\* the handler started with or the date it ended with).
C7_RetractionExact ==
    [][ (Handles("7") /\ last'.user \in ADMIN_IDS)
        => \E today \in {last'.date, clock'.day} : C7_ExactFor(today) ]_vars

(***************************************************************************)
(* C8: what a sweep penalises.                                             *)
(***************************************************************************)
\* the sweep for the date today, as the claim states it
C8_ExactFor(today) ==
    LET g == last'.group
        gs == salary'[g]
        known == [i \in 1..Len(gs) |-> <<int(gs[i].key), gs[i].username>>]
        marked == MarkedIds(EntriesAt(attendance, g, today, last'.session))
        miss == { i \in 1..Len(gs) :
                    known[i][1] \notin marked /\ known[i][1] \notin ADMIN_IDS }
        missIds == { known[i][1] : i \in miss }
    IN  /\ \A v \in Users :
              IF v \in missIds
              THEN /\ HistOf(salary', g, v) =
                          Append(HistOf(salary, g, v),
                                 [date |-> today, amount |-> LATE_PENALTY,
                                  reason |-> "missing"])
                   /\ DedOf(salary', g, v) = DedOf(salary, g, v) + LATE_PENALTY
              ELSE /\ HistOf(salary', g, v) = HistOf(salary, g, v)
                   /\ DedOf(salary', g, v) = DedOf(salary, g, v)
        /\ last'.reply.list = SubSeqAt(known, miss, 1)

\* C8: a sweep by an administrator penalises exactly the known members that
\* have no entry in today's record for the current session and are no
\* administrators: each gets one event {today, PENALTY, missing} and PENALTY
\* on the total, nobody else's total or history changes, and the returned
\* list is that set in known-members order (today being the date the handler
\* started with or the date it ended with).
C8_SweepExact ==
    [][ (Handles("6") /\ last'.user \in ADMIN_IDS)
        => \E today \in {last'.date, clock'.day} : C8_ExactFor(today) ]_vars

(***************************************************************************)
(* C9: the sweep is not idempotent.                                        *)
(***************************************************************************)
C9_SweepEffect ==
    ( Handles("6") /\ last'.user \in ADMIN_IDS )
    => \A v \in Users \ ADMIN_IDS :
          ( /\ HasRec(GroupSal(salary, last'.group), v)
            /\ ~AlreadyIn(EntriesAt(attendance, last'.group, last'.date, last'.session), v) )
          => LET old == HistOf(salary, last'.group, v)
                 new == HistOf(salary', last'.group, v)
             IN  /\ Len(new) = Len(old) + 1
                 /\ SubSeq(new, 1, Len(old)) = old
                 /\ new[Len(new)].reason = "missing"
                 /\ new[Len(new)].amount = 50
                 /\ DedOf(salary', last'.group, v) = DedOf(salary, last'.group, v) + 50

\* C9: every sweep by an administrator, however many came before it in the
\* same session of the same day, gives each known non-admin member without
\* an entry for that session one more missing event and 50 more deductions,
\* so k sweeps add k events and k * 50.
C9_SweepNotIdempotent == [][C9_SweepEffect]_vars

\* the last two events of a history are missing events of one date
TwoMissing(hist) ==
    /\ Len(hist) >= 2
    /\ hist[Len(hist)].reason = "missing"
    /\ hist[Len(hist) - 1].reason = "missing"
    /\ hist[Len(hist)].date = hist[Len(hist) - 1].date

\* C9 witness: known members 1, 2, 3 of which 2 and 3 have no entry for the
\* session; the second sweep of that session has just penalised 2 and 3
\* again, each now owing 100
C9_Witness ==
    /\ last.text = "6"
    /\ last.reply.status = "swept"
    /\ last.reply.list = <<<<2, NameOf(2)>>, <<3, NameOf(3)>>>>
    /\ \A v \in {2, 3} :
          /\ TwoMissing(HistOf(salary, last.group, v))
          /\ DedOf(salary, last.group, v) = 100

(***************************************************************************)
(* C10: the known-members fallback.                                        *)
(***************************************************************************)
\* C10: when the group's salary ledger holds no user at the time a sweep is
\* requested, every non-admin user that appears in the group's attendance
\* ledger and has no entry in today's current session is penalised.
C10_FallbackMembers ==
    [][ ( /\ Handles("6")
          /\ last'.user \in ADMIN_IDS
          /\ GroupSal(salary, last'.group) = << >>
          /\ last'.group \in DOMAIN attendance )
        => \A e \in EntriesOf(attendance[last'.group]) :
              ( /\ e.user_id \notin ADMIN_IDS
                /\ ~AlreadyIn(EntriesAt(attendance, last'.group, last'.date,
                                        last'.session), e.user_id) )
              => DedOf(salary', last'.group, e.user_id) = LATE_PENALTY ]_vars

(***************************************************************************)
(* C11: the stored documents against the ledgers in memory.                *)
(***************************************************************************)
\* what a start of the process would load from a store
Stored(path) == load_json(disk, path, TRUE).value

\* C11: whenever the handling of a message has finished, the stored
\* attendance and salary documents equal the attendance and salary ledgers
\* in memory.
C11_NoMemoryOnlyState ==
    last = NoEvent => Stored(DATA_FILE) = attendance /\ Stored(SALARY_FILE) = salary

(***************************************************************************)
(* save_all statement by statement (lines 43-47), with a crash of the      *)
(* process possible before each of its writes.  The start is a handler of  *)
(* "1" that has created its entry and is about to call save_all at line    *)
(* 168: the first mark after a start without files, or a mark in a group   *)
(* whose three users are known and whose attendance was cleared and saved. *)
(***************************************************************************)
\* the attendance ledger after the group's first entry, by user u at c
MarkedAttendance(u, c) ==
    Put(EmptyMap, TheGroup,
        Put(EmptyMap, today_str(c),
            [EmptyDay EXCEPT ![current_session(c.tod)] = <<StoredEntry(u, c)>>]))

\* the salary ledger after that mark, from the group's records gs
MarkedSalary(gs, u, c) ==
    Put(EmptyMap, TheGroup,
        IF LateFlag(u, c)
        THEN applyDeduction(gs, u, today_str(c), LATE_PENALTY, "late")
        ELSE gs)

\* the files a save can start from: none, or those of the last save
SaveStartDisk == WriteAll(NoFiles, ClearedAttendance, StaffedSalary)
SaveStartFiles == { NoFile, SaveStartDisk[DATA_FILE], SaveStartDisk[SALARY_FILE] }

At(pc) == [Running EXCEPT !.pc = pc]

InitSave ==
    /\ \E u \in Users, c \in ClockValues :
          /\ attendance = MarkedAttendance(u, c)
          /\ \/ /\ salary = MarkedSalary(<<ZeroRecord(u)>>, u, c)
                /\ disk = NoFiles
             \/ /\ salary = MarkedSalary(StaffedSalary[TheGroup], u, c)
                /\ disk = SaveStartDisk
          /\ clock = c
          /\ last = Event(TheGroup, u, "1", today_str(c), c, current_session(c.tod),
                          Reply("created", LateFlag(u, c), << >>, 0))
    /\ nEvents = 1
    /\ probe = NoProbe
    /\ proc = At("save_open_data")
    /\ tasks = {}

\* a statement of save_all changes the disk and moves on
SaveStatement(pc, d, next) ==
    /\ proc.pc = pc
    /\ disk' = d
    /\ proc' = At(next)
    /\ UNCHANGED <<attendance, salary, clock, last, nEvents, probe, tasks>>

\* line 44
SaveOpenData ==
    SaveStatement("save_open_data", OpenForWrite(disk, DATA_FILE), "save_dump_data")

\* line 45: the dump reaches the file chunk by chunk
SaveDumpData ==
    LET d == WriteChunk(disk, DATA_FILE, attendance)
    IN  SaveStatement("save_dump_data", d,
                      IF Complete(d, DATA_FILE, attendance)
                      THEN "save_open_salary" ELSE "save_dump_data")

\* line 46
SaveOpenSalary ==
    SaveStatement("save_open_salary", OpenForWrite(disk, SALARY_FILE), "save_dump_salary")

\* line 47; save_all then returns to the handler
SaveDumpSalary ==
    LET d == WriteChunk(disk, SALARY_FILE, salary)
    IN  SaveStatement("save_dump_salary", d,
                      IF Complete(d, SALARY_FILE, salary)
                      THEN "running" ELSE "save_dump_salary")

SavePoints == {"save_open_data", "save_dump_data", "save_open_salary", "save_dump_salary"}

\* the process dies inside save_all; the files stay as they are
Crash ==
    /\ proc.pc \in SavePoints
    /\ proc' = At("crashed")
    /\ UNCHANGED <<attendance, salary, clock, last, nEvents, probe, disk, tasks>>

NextSave ==
    \/ SaveOpenData
    \/ SaveDumpData
    \/ SaveOpenSalary
    \/ SaveDumpSalary
    \/ Crash

SpecSave == InitSave /\ [][NextSave]_vars

(***************************************************************************)
(* C12: a crash inside save_all.                                           *)
(***************************************************************************)
\* the store holds all of the ledger in memory
IsNew(path) ==
    Complete(disk, path, IF path = DATA_FILE THEN attendance ELSE salary)

\* C12: after a crash inside save_all each of the two stores is either as
\* the save found it or holds all of the new document, never a cut or
\* partly written text (so when both are stale nothing was written yet).
C12_CrashSafeSave ==
    proc.pc = "crashed" =>
        \A p \in Stores : disk[p] \in SaveStartFiles \/ IsNew(p)

(***************************************************************************)
(* Startup (lines 40-41): the two files are loaded one after the other,    *)
(* each in whatever condition the last run or anything else left it.       *)
(***************************************************************************)
\* the conditions of a stored file: missing, empty, cut in the middle of a
\* dump, not JSON at all, a dumped ledger, a dumped empty dict, a JSON null
\* and a JSON array
StartupFiles(doc) ==
    { NoFile, File(<< >>), File(<<"{", doc>>), File(<<"garbage">>),
      File(Dump(doc)), File(Dump(EmptyMap)), File(<<"null">>),
      File(<<"[", <<"item">>, "]">>) }

\* a backup name is free or taken by the file of an earlier recovery
BackupFiles == { NoFile, File(<<"garbage">>) }

InitStartup ==
    /\ attendance = EmptyMap
    /\ salary = EmptyMap
    /\ disk \in { d \in [Paths -> StartupFiles(StoredAttendance)
                                   \cup StartupFiles(StaffedSalary)] :
                     /\ d[DATA_FILE] \in StartupFiles(StoredAttendance)
                     /\ d[SALARY_FILE] \in StartupFiles(StaffedSalary)
                     /\ \A p \in Stores : d[Bak(p)] \in BackupFiles }
    /\ clock = FirstClock
    /\ last = NoEvent
    /\ nEvents = 0
    /\ probe = NoProbe
    /\ proc = [pc |-> "load_data", data_type |-> "unset", salary_type |-> "unset"]
    /\ tasks = {}

\* line 40
LoadData ==
    /\ proc.pc = "load_data"
    /\ \E renamed \in BOOLEAN :
          LET r == load_json(disk, DATA_FILE, renamed)
          IN  /\ attendance' = r.value
              /\ disk' = r.disk
              /\ proc' = [proc EXCEPT !.pc = "load_salary", !.data_type = r.type]
    /\ UNCHANGED <<salary, clock, last, nEvents, probe, tasks>>

\* line 41
LoadSalary ==
    /\ proc.pc = "load_salary"
    /\ \E renamed \in BOOLEAN :
          LET r == load_json(disk, SALARY_FILE, renamed)
          IN  /\ salary' = r.value
              /\ disk' = r.disk
              /\ proc' = [proc EXCEPT !.pc = "running", !.salary_type = r.type]
    /\ UNCHANGED <<attendance, clock, last, nEvents, probe, tasks>>

NextStartup ==
    \/ LoadData
    \/ LoadSalary

SpecStartup == InitStartup /\ [][NextStartup]_vars

(***************************************************************************)
(* C13: recovery from an unreadable store.                                 *)
(***************************************************************************)
\* what the load of the store at path must do, by the condition of its file
C13_LoadEffect(path, loaded, type) ==
    LET f == disk[path]
        r == json_load(f.text)
    IN  /\ type = "dict"
        /\ ~f.exists => loaded = EmptyMap /\ disk' = disk
        /\ (f.exists /\ ~r.ok) =>
               /\ loaded = EmptyMap
               /\ disk' = rename(disk, path, Bak(path))
        /\ (f.exists /\ r.ok /\ r.type = "dict") => loaded = r.value /\ disk' = disk
        /\ \A q \in Stores \ {path} : disk'[q] = disk[q]

\* C13: for each store on its own, a missing, cut or malformed file loads as
\* an empty mapping, an existing unreadable file is renamed to its backup
\* name, a readable store is returned as it is and not renamed, and in every
\* case what is loaded is a mapping.
C13_LoadRecovers ==
    [][ /\ (proc.pc = "load_data" /\ proc'.pc = "load_salary")
            => /\ C13_LoadEffect(DATA_FILE, attendance', proc'.data_type)
               /\ salary' = salary
        /\ (proc.pc = "load_salary" /\ proc'.pc = "running")
            => /\ C13_LoadEffect(SALARY_FILE, salary', proc'.salary_type)
               /\ attendance' = attendance ]_vars

(***************************************************************************)
(* C14: what a message of a non-admin can do.                              *)
(***************************************************************************)
IsPrefix(a, b) == Len(a) <= Len(b) /\ SubSeq(b, 1, Len(a)) = a

AdminOnlyTexts == {"4", "5", "6", "7", "0"}

C14_NonAdminEffect ==
    ( nEvents' = nEvents + 1 /\ last'.user \notin ADMIN_IDS )
    => /\ last'.text \in AdminOnlyTexts => last'.reply.status = "denied"
       /\ \A g \in DOMAIN attendance :
             /\ g \in DOMAIN attendance'
             /\ \A d \in DOMAIN attendance[g] :
                   /\ d \in DOMAIN attendance'[g]
                   /\ \A s \in Sessions :
                         IsPrefix(attendance[g][d][s], attendance'[g][d][s])
       /\ \A g \in DOMAIN salary :
             /\ g \in DOMAIN salary'
             /\ \A v \in Users :
                   /\ HasRec(salary[g], v) => HasRec(salary'[g], v)
                   /\ IsPrefix(HistOf(salary, g, v), HistOf(salary', g, v))
                   /\ DedOf(salary', g, v) >= DedOf(salary, g, v)
                   /\ (v # last'.user \/ g # last'.group)
                         => /\ HistOf(salary', g, v) = HistOf(salary, g, v)
                            /\ DedOf(salary', g, v) = DedOf(salary, g, v)

\* C14: a message of a non-admin asking for show_deductions,
\* clear_deductions, sweep_missing, clear_missing_today or clear_attendance
\* is refused, and no message of a non-admin removes an attendance entry,
\* removes a deduction event, adds one to the record of another user or
\* lowers a deduction total.
C14_DenialHarmless == [][C14_NonAdminEffect]_vars

\* C14 witness: a non-admin has just been refused clear_attendance while the
\* group holds an entry and a deduction of 50, both still there
C14_Witness ==
    /\ last.text = "0"
    /\ last.reply.status = "denied"
    /\ last.user \notin ADMIN_IDS
    /\ EntriesOf(attendance[last.group]) # {}
    /\ \E v \in Users : DedOf(salary, last.group, v) = 50

(***************************************************************************)
(* Two chats and handlers that interleave.  handle_message is a coroutine: *)
(* it runs from its entry to its first await without giving up control,    *)
(* and a dispatcher that allows it may start the handler of the next       *)
(* update while earlier ones are suspended.  Every await of handle_message *)
(* is a reply_text followed by return, except in the branch of "0", which  *)
(* awaits its reply (line 301), a sleep of 5 seconds (302) and a second    *)
(* reply (303).  A handler of any other text returns without an await.     *)
(* tasks holds the suspended handlers, each with the await it is at.       *)
(* An update arrives at the instant of the last clock read or at the next  *)
(* one, and the clock does not move while a handler runs: the handlers     *)
(* with a moving clock are those of Spec.                                  *)
(***************************************************************************)
Chats == {"g1", "g2"}
\* an administrator and one other user write in both chats
ChatUsers == {1, 2}

InitChats ==
    /\ attendance = EmptyMap
    /\ salary = EmptyMap
    /\ disk = NoFiles
    /\ clock = FirstClock
    /\ last = NoEvent
    /\ nEvents = 0
    /\ probe = NoProbe
    /\ proc = Running
    /\ tasks = {}

\* a handler may start whenever the run's budget of messages lasts
CanStart == nEvents < MaxEvents

\* the handler that has just run its first stretch suspends at its reply;
\* sleeps tells whether it is in the branch of "0" past the admin test
Park ==
    tasks' = IF last'.text = "other" THEN tasks
             ELSE tasks \cup {[id |-> nEvents', group |-> last'.group,
                                sleeps |-> last'.reply.status = "attendance_cleared",
                                at |-> "reply"]}

ChatMark ==
    /\ CanStart
    /\ \E g \in Chats, u \in ChatUsers, c0 \in Later(clock) :
           Mark(g, u, c0, c0, 4)
    /\ Park

ChatCount ==
    /\ CanStart
    /\ \E g \in Chats, u \in ChatUsers, c0 \in Later(clock) : Count(g, u, c0)
    /\ Park

ChatList ==
    /\ CanStart
    /\ \E g \in Chats, u \in ChatUsers, c0 \in Later(clock) : List(g, u, c0)
    /\ Park

ChatShow ==
    /\ CanStart
    /\ \E g \in Chats, u \in ChatUsers, c0 \in Later(clock) : Show(g, u, c0)
    /\ Park

ChatOtherText ==
    /\ CanStart
    /\ \E g \in Chats, u \in ChatUsers, c0 \in Later(clock) : OtherText(g, u, c0)
    /\ Park

ChatClearDeductions ==
    /\ CanStart
    /\ \E g \in Chats, u \in ChatUsers, c0 \in Later(clock) : ClearDeductions(g, u, c0)
    /\ Park

ChatFindMissing ==
    /\ CanStart
    /\ \E g \in Chats, u \in ChatUsers, c0 \in Later(clock) :
           \E sw \in SweepSwitches :
               \E members \in MemberLists(SalAfterEnsure(g, u)[g],
                                          AttAfterEnsure(g, today_str(c0))[g]) :
                   FindMissing(g, u, c0, c0, sw, members)
    /\ Park

ChatClearMissingToday ==
    /\ CanStart
    /\ \E g \in Chats, u \in ChatUsers, c0 \in Later(clock) :
           \E sw \in RetractSwitches(g) : ClearMissingToday(g, u, c0, c0, sw)
    /\ Park

ChatClearAttendance ==
    /\ CanStart
    /\ \E g \in Chats, u \in ChatUsers, c0 \in Later(clock) : ClearAttendance(g, u, c0)
    /\ Park

\* a suspended handler goes on from its await: nothing but its own position
\* changes
Resume(t, rest) ==
    /\ tasks' = (tasks \ {t}) \cup rest
    /\ UNCHANGED <<attendance, salary, clock, last, nEvents, probe, disk, proc>>

\* a variant that saves once the reply is out
ReplySent_ThenSaves ==
    \E t \in tasks :
        /\ t.at = "reply"
        /\ tasks' = tasks \ {t}
        /\ disk' = WriteAll(disk, attendance, salary)
        /\ UNCHANGED <<attendance, salary, clock, last, nEvents, probe, proc>>

\* the reply is out: the handler returns, or in the branch of "0" goes to
\* sleep (lines 301-302)
ReplySent ==
    \E t \in tasks :
        /\ t.at = "reply"
        /\ Resume(t, IF t.sleeps THEN {[t EXCEPT !.at = "sleep"]} ELSE {})

\* line 302: the 5 seconds are over, the second reply is sent
SleepOver ==
    \E t \in tasks :
        /\ t.at = "sleep"
        /\ Resume(t, {[t EXCEPT !.at = "second_reply"]})

\* line 303-304: the second reply is out, the handler returns
SecondReplySent ==
    \E t \in tasks :
        /\ t.at = "second_reply"
        /\ Resume(t, {})

NextChats ==
    \/ ChatMark
    \/ ChatCount
    \/ ChatList
    \/ ChatShow
    \/ ChatOtherText
    \/ ChatClearDeductions
    \/ ChatFindMissing
    \/ ChatClearMissingToday
    \/ ChatClearAttendance
    \/ ReplySent
    \/ SleepOver
    \/ SecondReplySent

SpecChats == InitChats /\ [][NextChats]_vars

(***************************************************************************)
(* C15: group isolation.                                                   *)
(***************************************************************************)
\* the handling of a message leaves the ledgers of every other group alone
C15_OtherGroupsUntouched ==
    nEvents' = nEvents + 1
    => \A h \in Chats \ {last'.group} :
          /\ h \in DOMAIN attendance' <=> h \in DOMAIN attendance
          /\ h \in DOMAIN attendance => attendance'[h] = attendance[h]
          /\ h \in DOMAIN salary' <=> h \in DOMAIN salary
          /\ h \in DOMAIN salary => salary'[h] = salary[h]

\* C15: the handling of a message of one group changes neither the
\* DayRecord mapping nor the SalaryRecord mapping of any other group, so a
\* user of two groups has entries and a deduction total of its own in each.
C15_GroupIsolation == [][C15_OtherGroupsUntouched]_vars

\* C15 witness: a user has an entry in both groups, was on time in one and
\* late in the other, where the mark has just been handled, and owes 0 in
\* the first and 50 in the second
C15_Witness ==
    \E u \in Users \ ADMIN_IDS : \E g, h \in Chats :
        /\ g # h
        /\ last.group = h /\ last.user = u /\ last.text = "1"
        /\ \E e \in AllEntries(attendance) : e.user_id = u /\ ~e.late
        /\ g \in DOMAIN attendance /\ \E e \in EntriesOf(attendance[g]) : e.user_id = u
        /\ \E e \in EntriesOf(attendance[h]) : e.user_id = u /\ e.late
        /\ DedOf(salary, g, u) = 0
        /\ DedOf(salary, h, u) = LATE_PENALTY

(***************************************************************************)
(* C16: the two clear operations of an administrator.                      *)
(***************************************************************************)
\* every user with a record in the group keeps it
KeepsRecords(g) ==
    \A v \in Users : HasRec(GroupSal(salary, g), v) => HasRec(GroupSal(salary', g), v)

C16_ClearDeductionsEffect ==
    ( Handles("5") /\ last'.user \in ADMIN_IDS )
    => LET g == last'.group
       IN  /\ \A i \in 1..Len(salary'[g]) :
                 salary'[g][i].deductions = 0 /\ salary'[g][i].history = << >>
           /\ KeepsRecords(g)
           /\ AllEntries(attendance') = AllEntries(attendance)
           /\ g \in DOMAIN attendance =>
                 \A d \in DOMAIN attendance[g] : attendance'[g][d] = attendance[g][d]

C16_ClearAttendanceEffect ==
    ( Handles("0") /\ last'.user \in ADMIN_IDS )
    => LET g == last'.group
       IN  /\ attendance'[g] = EmptyMap
           /\ KeepsRecords(g)
           /\ \A v \in Users :
                 /\ HistOf(salary', g, v) = HistOf(salary, g, v)
                 /\ DedOf(salary', g, v) = DedOf(salary, g, v)

\* C16: clear_deductions by an administrator sets deductions to 0 and
\* history to empty for every salary record of the group, keeps every user's
\* record and changes no attendance entry; clear_attendance by an
\* administrator removes every DayRecord of the group and changes no
\* record's deductions or history.
C16_DisjointClears == [][C16_ClearDeductionsEffect /\ C16_ClearAttendanceEffect]_vars

\* C16 witness: clear_attendance has just emptied the group's attendance
\* while a user's late deduction of 50 and its event are still on record
C16_Witness ==
    /\ last.text = "0"
    /\ last.reply.status = "attendance_cleared"
    /\ attendance[last.group] = EmptyMap
    /\ \E v \in Users :
          /\ DedOf(salary, last.group, v) = 50
          /\ Len(HistOf(salary, last.group, v)) = 1

(***************************************************************************)
(* C17: suspension points against mutations and the save.                  *)
(***************************************************************************)
\* what a start of the process would load from a store of the disk d
StoredIn(d, path) == load_json(d, path, TRUE).value

C17_NoSuspensionMidMutation ==
    /\ (attendance' # attendance \/ salary' # salary \/ disk' # disk)
          => nEvents' = nEvents + 1
    /\ (nEvents' = nEvents + 1 /\ disk' # disk)
          => /\ StoredIn(disk', DATA_FILE) = attendance'
             /\ StoredIn(disk', SALARY_FILE) = salary'

\* C17: with handlers of different messages interleaving at their awaits,
\* the ledgers and the files change only in the stretch of a handler before
\* its first await, and a handler that saves has saved all of the ledgers
\* when it suspends; a handler resumed after an await (a reply, the pause of
\* clear_attendance) writes nothing, so the ledgers and files go through
\* the states of a serial dispatch of the same messages.
C17_SerialEquivalent == [][C17_NoSuspensionMidMutation]_vars

\* C17 witness: a clear_attendance is in its pause of 5 seconds, a mark of
\* the same group has meanwhile created an entry and is suspended at its
\* reply, and the files hold the ledgers with that entry
C17_Witness ==
    /\ last.text = "1"
    /\ last.reply.status = "created"
    /\ \E t \in tasks : t.sleeps /\ t.at = "sleep" /\ t.group = last.group
    /\ \E t \in tasks : t.id = nEvents /\ t.at = "reply"
    /\ EntriesOf(attendance[last.group]) # {}
    /\ Stored(DATA_FILE) = attendance
    /\ Stored(SALARY_FILE) = salary

(***************************************************************************)
(* C18: an entry against its own recorded date, time and session.          *)
(***************************************************************************)
\* C18: every attendance entry sits in the DayRecord keyed by its date
\* field, in the session list named by its session field, and that session
\* is morning exactly when the entry's recorded time is before 13:00:00.
C18_EntryConsistent ==
    \A g \in DOMAIN attendance : \A d \in DOMAIN attendance[g] : \A s \in Sessions :
        \A i \in 1..Len(attendance[g][d][s]) :
            LET e == attendance[g][d][s][i]
            IN  /\ e.date = d
                /\ e.session = s
                /\ (s = "morning") <=> (TimeOfStr(e.time) < SESSION_CUT)

(***************************************************************************)
(* C19: a retraction subtracts what it removes.                            *)
(***************************************************************************)
\* C19: in every clear_missing_today by an administrator, for every record
\* the amounts of the events that leave the history add up to what leaves
\* the total: what was in the history before is what is in it after plus
\* what was subtracted.
C19_RemovedIsSubtracted ==
    [][ ( Handles("7") /\ last'.user \in ADMIN_IDS )
        => \A v \in Users :
              SumAmounts(HistOf(salary, last'.group, v))
                  - SumAmounts(HistOf(salary', last'.group, v))
              = DedOf(salary, last'.group, v) - DedOf(salary', last'.group, v) ]_vars

(***************************************************************************)
(* C20: known members.                                                     *)
(***************************************************************************)
\* every user with an entry in a group has a salary record there, and every
\* total is a non-negative multiple of the penalty
C20_EntriesHaveRecords ==
    /\ \A g \in DOMAIN attendance : \A e \in EntriesOf(attendance[g]) :
          HasRec(GroupSal(salary, g), e.user_id)
    /\ \A g \in DOMAIN salary : \A i \in 1..Len(salary[g]) :
          /\ salary[g][i].deductions >= 0
          /\ salary[g][i].deductions % LATE_PENALTY = 0

\* no record is ever removed, the sender of a message has a record once it
\* is handled, and a sweep counts every non-admin with a record and without
\* an entry for the session as missing
C20_RecordsStay ==
    /\ \A g \in DOMAIN salary : g \in DOMAIN salary' /\ KeepsRecords(g)
    /\ nEvents' = nEvents + 1 => HasRec(GroupSal(salary', last'.group), last'.user)
    /\ ( Handles("6") /\ last'.user \in ADMIN_IDS )
          => \A v \in Users \ ADMIN_IDS :
                ( /\ HasRec(GroupSal(salary, last'.group), v)
                  /\ ~AlreadyIn(EntriesAt(attendance, last'.group, last'.date,
                                          last'.session), v) )
                => /\ last'.reply.status = "swept"
                   /\ \E k \in 1..Len(last'.reply.list) : last'.reply.list[k][1] = v

\* C20: from empty ledgers on, every user with an attendance entry in a
\* group has a salary record in that group, no operation removes a salary
\* record, so whoever has sent a message in a group is a known member for
\* every later sweep there, and every record's deductions is a non-negative
\* multiple of the penalty.
C20_KnownMembers == [][C20_EntriesHaveRecords' /\ C20_RecordsStay]_vars

\* C20 witness: from empty ledgers user 2 has only asked for the count, and
\* the administrator's sweep that followed has listed user 2 as missing and
\* deducted 50
C20_Witness ==
    /\ last.text = "6"
    /\ last.reply.status = "swept"
    /\ last.reply.list = <<<<2, NameOf(2)>>>>
    /\ Len(salary[last.group]) = 2
    /\ EntriesOf(attendance[last.group]) = {}
    /\ DedOf(salary, last.group, 2) = LATE_PENALTY

====
